---- MODULE Spec2Model ----
(***************************************************************************)
(* Model of the SAAI agent orchestrator (src/src/agents/main.py):          *)
(* AgentOrchestrator.initialize / _initialize_agents / _run_agent_loop /   *)
(* shutdown / get_system_status, the lifespan, signal_handler and the HTTP  *)
(* handlers health_check, list_agents and send_agent_command.              *)
(*                                                                         *)
(* Everything runs on one asyncio event loop.  A step of the model is the  *)
(* code that runs between two suspension points (awaits that give control  *)
(* back to the event loop).  An awaited call on a collaborator or on an    *)
(* agent is open: it returns or raises, and that choice is an input.       *)
(***************************************************************************)
EXTENDS Naturals, Sequences, FiniteSets

\* _initialize_agents with the first two agents in the other order.
AgentOrderSwapped == <<"memory", "perception", "action", "ethics">>

\* The agents of _initialize_agents, in the order the code registers them.
AgentOrder == <<"perception", "memory", "action", "ethics">>

AgentNames == {AgentOrder[i] : i \in 1..Len(AgentOrder)}

\* Targets a command may name: the agent registered first, the agent
\* registered last, and a name that is never registered.
CommandTargets == {AgentOrder[1], AgentOrder[Len(AgentOrder)], "unknown"}

VARIABLES
    orchestrator,      \* the global `orchestrator` is not None
    cognitive_fabric,  \* self.cognitive_fabric is not None
    metrics,           \* self.metrics is not None
    health_monitor,    \* self.health_monitor is not None
    agents,            \* keys of self.agents, in insertion order
    running,           \* self.running
    initPc,            \* where initialize() is suspended, or how it ended
    loop,              \* per agent: where its _run_agent_loop task is
    shutPc,            \* where shutdown() is suspended, or how it ended
    calls,             \* start/initialize/shutdown calls made, in order
    raised,            \* the calls of `calls` whose exception was not caught
    caught,            \* an agent.shutdown() exception was caught and logged
    recording,         \* agent names of record_agent_error calls in flight
    request,           \* the HTTP request being served, or the last reply
    lifecycle          \* per agent: its lifecycle state (data model, 3)

vars == <<orchestrator, cognitive_fabric, metrics, health_monitor, agents,
          running, initPc, loop, shutPc, calls, raised, caught, recording,
          request, lifecycle>>

Call(c, op) == [comp |-> c, op |-> op]

\* The lifecycle map lc with worker a in state st (spec, section 3: Uninitialized,
\* Initializing, Running, Degraded, ShuttingDown, Stopped).
Mark(lc, a, st) == [lc EXCEPT ![a] = st]

Keys(seq) == {seq[i] : i \in 1..Len(seq)}

NoRequest == [op |-> "none", name |-> "none", pc |-> "idle",
              resp |-> "none", handler |-> "none", invoked |-> 0,
              body |-> <<>>, late |-> FALSE]

Init ==
    /\ orchestrator = FALSE
    /\ cognitive_fabric = FALSE
    /\ metrics = FALSE
    /\ health_monitor = FALSE
    /\ agents = <<>>
    /\ running = FALSE
    /\ initPc = "idle"
    /\ loop = [a \in AgentNames |-> "none"]
    /\ shutPc = "idle"
    /\ calls = <<>>
    /\ raised = {}
    /\ caught = FALSE
    /\ recording = {}
    /\ request = NoRequest
    /\ lifecycle = [a \in AgentNames |-> "Uninitialized"]

----------------------------------------------------------------------------
(* Startup: lifespan and AgentOrchestrator.initialize                      *)

\* initialize() with an except clause that logs and does not re-raise.
InitializeSwallows == "done"

\* The except clause of initialize: log and re-raise to the caller.
InitializeRaises == "failed"

\* lifespan: build the orchestrator, enter initialize(), build the
\* message-bus client and await its connect().
LifespanStartup ==
    /\ ~orchestrator
    /\ initPc = "idle"
    /\ orchestrator' = TRUE
    /\ cognitive_fabric' = TRUE
    /\ initPc' = "cognitive_fabric"
    /\ calls' = Append(calls, Call("cognitive_fabric", "start"))
    /\ UNCHANGED <<metrics, health_monitor, agents, running, loop, shutPc,
                   raised, recording, request, lifecycle, caught>>

\* connect() ends; on success build the metrics collector and await start().
ConnectReturn(ok) ==
    /\ initPc = "cognitive_fabric"
    /\ IF ok
       THEN /\ metrics' = TRUE
            /\ initPc' = "metrics"
            /\ calls' = Append(calls, Call("metrics", "start"))
            /\ UNCHANGED raised
       ELSE /\ initPc' = InitializeRaises
            /\ raised' = raised \cup {Call("cognitive_fabric", "start")}
            /\ UNCHANGED <<metrics, calls>>
    /\ UNCHANGED <<orchestrator, cognitive_fabric, health_monitor, agents,
                   running, loop, shutPc, recording, request, lifecycle,
                   caught>>

\* _initialize_agents registers self.agents[a] and awaits a.initialize();
\* lc is the lifecycle map the step starts from.
RegisterAndInitialize(a, lc) ==
    /\ agents' = Append(agents, a)
    /\ initPc' = a
    /\ calls' = Append(calls, Call(a, "start"))
    /\ lifecycle' = Mark(lc, a, "Initializing")

\* metrics.start() ends; on success build the health monitor (not started)
\* and enter _initialize_agents with the first agent.
MetricsStartReturn(ok) ==
    /\ initPc = "metrics"
    /\ IF ok
       THEN /\ health_monitor' = TRUE
            /\ RegisterAndInitialize(AgentOrder[1], lifecycle)
            /\ UNCHANGED raised
       ELSE /\ initPc' = InitializeRaises
            /\ raised' = raised \cup {Call("metrics", "start")}
            /\ UNCHANGED <<health_monitor, agents, calls, lifecycle>>
    /\ UNCHANGED <<orchestrator, cognitive_fabric, metrics, running, loop,
                   shutPc, recording, request, caught>>

\* Position of agent a in the registration order.
IndexOf(a) == CHOOSE i \in 1..Len(AgentOrder) : AgentOrder[i] = a

\* The end of _initialize_agents and the rest of initialize(): one task per
\* registered agent is created (none has run yet), then health_monitor.start()
\* is awaited.  The health monitor is a collaborator: its start() may suspend
\* (mode "suspends"), or end without giving control back to the event loop,
\* returning ("returns": running is set and initialize() returns) or raising.
SpawnLoopsAndStartHealthMonitor(mode) ==
    /\ loop' = [a \in AgentNames |-> IF a \in Keys(agents) THEN "created" ELSE loop[a]]
    /\ calls' = Append(calls, Call("health_monitor", "start"))
    /\ CASE mode = "suspends" ->
              /\ initPc' = "health_monitor"
              /\ UNCHANGED <<running, raised>>
         [] mode = "returns" ->
              /\ initPc' = "done"
              /\ running' = TRUE
              /\ UNCHANGED raised
         [] mode = "raises" ->
              /\ initPc' = InitializeRaises
              /\ raised' = raised \cup {Call("health_monitor", "start")}
              /\ UNCHANGED running

\* a.initialize() ends for the agent being initialised.
AgentInitializeReturn(ok, mode) ==
    /\ initPc \in AgentNames
    /\ LET a == initPc
           lc == Mark(lifecycle, a, "Running")
       IN  IF ~ok
           THEN /\ initPc' = InitializeRaises
                /\ raised' = raised \cup {Call(a, "start")}
                /\ UNCHANGED <<agents, calls, lifecycle, loop, running>>
           ELSE IF IndexOf(a) < Len(AgentOrder)
           THEN /\ RegisterAndInitialize(AgentOrder[IndexOf(a) + 1], lc)
                /\ UNCHANGED <<raised, loop, running>>
           ELSE /\ lifecycle' = lc
                /\ SpawnLoopsAndStartHealthMonitor(mode)
                /\ UNCHANGED agents
    /\ UNCHANGED <<orchestrator, cognitive_fabric, metrics,
                   health_monitor, shutPc, recording, request, caught>>

\* A task that was created and has not run yet is ahead, in the event
\* loop's ready queue, of whatever resumes a coroutine that suspended later.
NoTaskPending == \A a \in AgentNames : loop[a] # "created"

\* health_monitor.start() ends after having suspended.
HealthMonitorStartReturn(ok) ==
    /\ initPc = "health_monitor"
    /\ NoTaskPending
    /\ IF ok
       THEN /\ running' = TRUE
            /\ initPc' = "done"
            /\ UNCHANGED raised
       ELSE /\ initPc' = InitializeRaises
            /\ raised' = raised \cup {Call("health_monitor", "start")}
            /\ UNCHANGED running
    /\ UNCHANGED <<orchestrator, cognitive_fabric, metrics,
                   health_monitor, agents, loop, shutPc, calls, recording,
                   request, lifecycle, caught>>

----------------------------------------------------------------------------
(* Supervisor loops: AgentOrchestrator._run_agent_loop                     *)

\* A loop that does not test self.running (`while True:`).
LoopTestAlways == "cycle"

\* `while self.running:` followed, without a suspension point, by the call
\* of agent.process_cycle().
LoopTest == IF running THEN "cycle" ELSE "exited"

\* A loop that reports every failure under the first agent's name.
ReportedNameFixed(a) == AgentOrder[1]

\* The name passed to metrics.record_agent_error by the loop of agent a.
ReportedName(a) == a

\* The task of agent a runs for the first time.
LoopStart(a) ==
    /\ loop[a] = "created"
    /\ loop' = [loop EXCEPT ![a] = LoopTest]
    /\ UNCHANGED <<orchestrator, cognitive_fabric, metrics,
                   health_monitor, agents, running, initPc, shutPc, calls,
                   raised, recording, request, lifecycle, caught>>

\* process_cycle() ends: on success sleep 100 ms; on an exception log it and
\* await metrics.record_agent_error(agent_name, ...).
CycleReturn(a, ok) ==
    /\ loop[a] = "cycle"
    /\ IF ok
       THEN /\ loop' = [loop EXCEPT ![a] = "sleep"]
            /\ UNCHANGED recording
       ELSE /\ loop' = [loop EXCEPT ![a] = "report"]
            /\ recording' = recording \cup {ReportedName(a)}
    /\ UNCHANGED <<orchestrator, cognitive_fabric, metrics,
                   health_monitor, agents, running, initPc, shutPc, calls,
                   raised, request, lifecycle, caught>>

\* asyncio.sleep(0.1) ends: next iteration.
SleepReturn(a) ==
    /\ loop[a] = "sleep"
    /\ loop' = [loop EXCEPT ![a] = LoopTest]
    /\ UNCHANGED <<orchestrator, cognitive_fabric, metrics,
                   health_monitor, agents, running, initPc, shutPc, calls,
                   raised, recording, request, lifecycle, caught>>

\* record_agent_error() ends: on success sleep 1 s; an exception raised
\* inside the except clause leaves the coroutine, and the task ends.
ReportReturn(a, ok) ==
    /\ loop[a] = "report"
    /\ loop' = [loop EXCEPT ![a] = IF ok THEN "backoff" ELSE "crashed"]
    /\ recording' = recording \ {ReportedName(a)}
    /\ UNCHANGED <<orchestrator, cognitive_fabric, metrics,
                   health_monitor, agents, running, initPc, shutPc, calls,
                   raised, request, lifecycle, caught>>

\* asyncio.sleep(1) ends: next iteration.
BackoffReturn(a) ==
    /\ loop[a] = "backoff"
    /\ loop' = [loop EXCEPT ![a] = LoopTest]
    /\ UNCHANGED <<orchestrator, cognitive_fabric, metrics,
                   health_monitor, agents, running, initPc, shutPc, calls,
                   raised, recording, request, lifecycle, caught>>

----------------------------------------------------------------------------
(* Shutdown: AgentOrchestrator.shutdown                                    *)

\* The `if self.cognitive_fabric:` guard after the metrics step.
AfterMetrics == IF cognitive_fabric THEN "cognitive_fabric" ELSE "done"

\* shutdown() disconnecting the message bus right after the health monitor.
AfterHealthMonitorBusFirst == AfterMetrics

\* The `if self.metrics:` guard after the health-monitor step.
AfterHealthMonitor == IF metrics THEN "metrics" ELSE AfterMetrics

\* shutdown() calling health_monitor.shutdown() without the guard.
AfterAgentsUnguarded == "health_monitor"

\* The `if self.health_monitor:` guard after the loop over the agents.
AfterAgents == IF health_monitor THEN "health_monitor" ELSE AfterHealthMonitor

\* `for agent_name, agent in self.agents.items()`: the step after the i-th.
AfterAgent(i) == IF i < Len(agents) THEN agents[i + 1] ELSE AfterAgents

\* An exception of a service's shutdown()/disconnect() is not caught: it
\* leaves shutdown().
ShutdownRaises == "raised"

\* shutdown() goes on to step pc: the step's shutdown call is made, or
\* shutdown() returns; lc is the lifecycle map the step starts from.
Teardown(pc, lc) ==
    /\ shutPc' = pc
    /\ calls' = IF pc \in {"done", ShutdownRaises}
                THEN calls
                ELSE Append(calls, Call(pc, "shutdown"))
    /\ lifecycle' = IF pc \in AgentNames
                    THEN Mark(lc, pc, "ShuttingDown")
                    ELSE lc

\* shutdown() that leaves self.running as it is.
RunningKept == running

\* `self.running = False`, the first statement of shutdown().
RunningAtShutdown == FALSE

\* shutdown() is entered once initialize() has ended: running is cleared and
\* the first shutdown call is made.
ShutdownStart ==
    /\ orchestrator
    /\ shutPc = "idle"
    /\ initPc \in {"done", "failed"}
    /\ NoTaskPending
    /\ running' = RunningAtShutdown
    /\ Teardown(AfterAgent(0), lifecycle)
    /\ UNCHANGED <<orchestrator, cognitive_fabric, metrics,
                   health_monitor, agents, initPc, loop, raised,
                   recording, request, caught>>

\* lifespan, after its `yield`: `if orchestrator: await orchestrator.shutdown()`.
\* The yield is reached only when `await orchestrator.initialize()` returned;
\* an exception of initialize() leaves the lifespan before it.
LifespanShutdown ==
    /\ initPc = "done"
    /\ ShutdownStart

\* signal_handler: `if orchestrator: await orchestrator.shutdown()`, for a
\* signal that arrives once initialize() has ended, however it ended.
SignalHandler == ShutdownStart

\* shutdown() with the agents' shutdown calls outside any try/except.
AfterAgentShutdownUncaught(i, ok) == IF ok THEN AfterAgent(i) ELSE ShutdownRaises

\* The try/except around agent.shutdown(): after the i-th agent's call has
\* returned or raised, the loop goes on alike.
AfterAgentShutdown(i, ok) == AfterAgent(i)

\* agent.shutdown() ends; an exception is caught and logged.
AgentShutdownReturn(ok) ==
    /\ shutPc \in AgentNames
    /\ caught' = (caught \/ ~ok)
    /\ Teardown(AfterAgentShutdown(IndexOf(shutPc), ok),
                Mark(lifecycle, shutPc, "Stopped"))
    /\ UNCHANGED <<orchestrator, cognitive_fabric, metrics, health_monitor,
                   agents, running, initPc, loop, raised, recording, request>>

\* health_monitor.shutdown() ends.
HealthMonitorShutdownReturn(ok) ==
    /\ shutPc = "health_monitor"
    /\ IF ok
       THEN /\ Teardown(AfterHealthMonitor, lifecycle)
            /\ UNCHANGED raised
       ELSE /\ shutPc' = ShutdownRaises
            /\ raised' = raised \cup {Call("health_monitor", "shutdown")}
            /\ UNCHANGED <<calls, lifecycle>>
    /\ UNCHANGED <<orchestrator, cognitive_fabric, metrics,
                   health_monitor, agents, running, initPc, loop,
                   recording, request, caught>>

\* metrics.shutdown() ends.
MetricsShutdownReturn(ok) ==
    /\ shutPc = "metrics"
    /\ IF ok
       THEN /\ Teardown(AfterMetrics, lifecycle)
            /\ UNCHANGED raised
       ELSE /\ shutPc' = ShutdownRaises
            /\ raised' = raised \cup {Call("metrics", "shutdown")}
            /\ UNCHANGED <<calls, lifecycle>>
    /\ UNCHANGED <<orchestrator, cognitive_fabric, metrics,
                   health_monitor, agents, running, initPc, loop,
                   recording, request, caught>>

\* cognitive_fabric.disconnect() ends.
DisconnectReturn(ok) ==
    /\ shutPc = "cognitive_fabric"
    /\ IF ok
       THEN /\ shutPc' = "done"
            /\ UNCHANGED raised
       ELSE /\ shutPc' = ShutdownRaises
            /\ raised' = raised \cup {Call("cognitive_fabric", "shutdown")}
    /\ UNCHANGED <<orchestrator, cognitive_fabric, metrics,
                   health_monitor, agents, running, initPc, loop, calls,
                   recording, request, lifecycle, caught>>

----------------------------------------------------------------------------
(* HTTP boundary: health_check / list_agents / send_agent_command          *)

\* One request is served at a time; a new one may arrive once the previous
\* one has been answered.
RequestSlotFree == request.pc # "await"

\* Whether a request that arrives now arrives after shutdown() has ended.
Late == shutPc \in {"done", ShutdownRaises}

\* A request answered in the step in which it arrives.
Reply(op, name, resp, handler, invoked) ==
    [op |-> op, name |-> name, pc |-> "replied", resp |-> resp,
     handler |-> handler, invoked |-> invoked, body |-> <<>>, late |-> Late]

\* A request that arrives and awaits a call of a collaborator or a worker.
Await(op, name) ==
    [op |-> op, name |-> name, pc |-> "await", resp |-> "none",
     handler |-> "running", invoked |-> 1, body |-> <<>>, late |-> Late]

\* The request in flight answered once the awaited call has ended.
Answer(resp, handler) ==
    [request EXCEPT !.pc = "replied", !.resp = resp, !.handler = handler]

\* get_system_status answers without a query when this holds.
StatusIsInitializing == ~health_monitor

\* GET /health: 503 without an orchestrator; otherwise get_system_status,
\* which answers "initializing" by itself or awaits
\* health_monitor.get_system_status().
HealthCheck ==
    /\ RequestSlotFree
    /\ request' = IF ~orchestrator
                  THEN Reply("health", "none", "503", "none", 0)
                  ELSE IF StatusIsInitializing
                  THEN Reply("health", "none", "initializing", "none", 0)
                  ELSE Await("health", "none")
    /\ UNCHANGED <<orchestrator, cognitive_fabric, metrics,
                   health_monitor, agents, running, initPc, loop, shutPc,
                   calls, raised, recording, lifecycle, caught>>

\* health_monitor.get_system_status() ends: its document, or 500.
StatusReturn(ok) ==
    /\ request.pc = "await"
    /\ request.op = "health"
    /\ request' = IF ok
                  THEN Answer("status", "returned")
                  ELSE Answer("500", "raised")
    /\ UNCHANGED <<orchestrator, cognitive_fabric, metrics,
                   health_monitor, agents, running, initPc, loop, shutPc,
                   calls, raised, recording, lifecycle, caught>>

\* GET /agents: 503 without an orchestrator, otherwise the keys of the
\* registry (and their count).
ListAgents ==
    /\ RequestSlotFree
    /\ request' = IF ~orchestrator
                  THEN Reply("list", "none", "503", "none", 0)
                  ELSE [Reply("list", "none", "200", "none", 0)
                            EXCEPT !.body = agents]
    /\ UNCHANGED <<orchestrator, cognitive_fabric, metrics,
                   health_monitor, agents, running, initPc, loop, shutPc,
                   calls, raised, recording, lifecycle, caught>>

\* send_agent_command that also turns away commands once running is false.
NotRegisteredOrStopped(name) == name \notin Keys(agents) \/ ~running

\* send_agent_command without the membership test.
RegistryNotChecked(name) == FALSE

\* `agent_name not in orchestrator.agents`
NotRegistered(name) == name \notin Keys(agents)

\* send_agent_command answering 200 whatever process_command did.
CommandReplyIgnoresError(ok) == "200"

\* The answer of send_agent_command once process_command has ended.
CommandReply(ok) == IF ok THEN "200" ELSE "500"

\* POST /agents/{name}/command: 503 without an orchestrator, 404 for a name
\* that is no key of the registry, otherwise await agent.process_command().
SendAgentCommand(name) ==
    /\ RequestSlotFree
    /\ request' = IF ~orchestrator
                  THEN Reply("command", name, "503", "none", 0)
                  ELSE IF NotRegistered(name)
                  THEN Reply("command", name, "404", "none", 0)
                  ELSE Await("command", name)
    /\ UNCHANGED <<orchestrator, cognitive_fabric, metrics,
                   health_monitor, agents, running, initPc, loop, shutPc,
                   calls, raised, recording, lifecycle, caught>>

\* process_command() ends: its result, or the caught exception as a 500.
CommandReturn(ok) ==
    /\ request.pc = "await"
    /\ request.op = "command"
    /\ request' = Answer(CommandReply(ok), IF ok THEN "returned" ELSE "raised")
    /\ UNCHANGED <<orchestrator, cognitive_fabric, metrics,
                   health_monitor, agents, running, initPc, loop, shutPc,
                   calls, raised, recording, lifecycle, caught>>

----------------------------------------------------------------------------
(* Properties                                                              *)

IsStart(c) == c.op = "start"

IsShutdown(c) == c.op = "shutdown"

\* The start/initialize calls made so far, in order.
Starts == SelectSeq(calls, IsStart)

\* The shutdown/disconnect calls made so far, in order.
Shutdowns == SelectSeq(calls, IsShutdown)

\* The status document of the health aggregator (spec, 4.4): every
\* registered worker with its lifecycle state.
SystemStatus == [a \in Keys(agents) |-> lifecycle[a]]

\* C1: after initialize() has returned successfully and until shutdown() is
\* invoked, no supervisor loop of a registered worker has exited.
C1_NoLoopExitsBeforeShutdown ==
    (initPc = "done" /\ shutPc = "idle")
        => \A a \in Keys(agents) : loop[a] # "exited"

\* C2: a cycle failure of worker a is reported to the metrics collaborator
\* under a's name and under no other; while running is true, a report that
\* returns is followed by the backoff wait and the backoff wait by another
\* call of a's cycle, however often this repeats; and no step of this failure
\* path touches another worker's loop, the running flag or the registry.
\* (A report that itself raises is a failure of the metrics collaborator, not
\* of the cycle; it ends a's loop alone.)
C2_CycleFailureRetriedInIsolation ==
    [][\A a \in AgentNames :
         /\ (loop[a] = "cycle" /\ loop'[a] \notin {"cycle", "sleep"})
                => /\ loop'[a] = "report"
                   /\ recording' = recording \cup {a}
         /\ (running /\ loop[a] = "report" /\ loop'[a] \notin {"report", "crashed"})
                => loop'[a] = "backoff"
         /\ (running /\ loop[a] = "backoff" /\ loop'[a] # "backoff")
                => loop'[a] = "cycle"
         /\ (loop[a] \in {"cycle", "report", "backoff"} /\ loop'[a] # loop[a])
                => /\ \A b \in AgentNames \ {a} : loop'[b] = loop[b]
                   /\ running' = running
                   /\ agents' = agents
                   /\ initPc' = initPc
                   /\ shutPc' = shutPc
      ]_vars

\* A running system in which one worker is in the backoff wait after a
\* failed cycle while the other workers' loops go on.
C2_Witness ==
    /\ initPc = "done"
    /\ shutPc = "idle"
    /\ running
    /\ loop["memory"] = "backoff"
    /\ loop["perception"] = "cycle"
    /\ loop["action"] = "sleep"
    /\ loop["ethics"] = "report"

\* C3: a start/initialize step of initialize() that fails is the last step of
\* the startup sequence that is executed (no worker later in configuration
\* order is initialised, ever), and initialize() raises to its caller.
C3_StartupFailsFast ==
    \A c \in raised :
        IsStart(c) =>
            /\ initPc = "failed"
            /\ Starts[Len(Starts)] = c
            /\ \A i \in 1..Len(AgentOrder) :
                  (c.comp \in AgentNames /\ IndexOf(c.comp) < i)
                      => /\ AgentOrder[i] \notin Keys(agents)
                         /\ Call(AgentOrder[i], "start") \notin Keys(calls)

\* A worker in the middle of the configuration order failed to initialise.
C3_Witness ==
    /\ initPc = "failed"
    /\ Call("memory", "start") \in raised
    /\ agents = <<"perception", "memory">>
    /\ shutPc = "done"

\* The shared collaborators that exist, in teardown order.
Collaborators ==
    SelectSeq(<<"health_monitor", "metrics", "cognitive_fabric">>,
              LAMBDA s : \/ s = "health_monitor" /\ health_monitor
                         \/ s = "metrics" /\ metrics
                         \/ s = "cognitive_fabric" /\ cognitive_fabric)

\* C4: whichever workers' shutdown steps raise, once shutdown() has left its
\* loop over the workers every registered worker's shutdown step has been
\* invoked and the teardown of the collaborators has been entered; when
\* shutdown() returns, every collaborator's shutdown step has been invoked;
\* and shutdown() raises only if a collaborator's own step raised, never
\* because of a worker.
C4_WorkerShutdownFailuresIsolated ==
    /\ shutPc \notin ({"idle"} \cup AgentNames)
          => /\ \A a \in Keys(agents) : Call(a, "shutdown") \in Keys(calls)
             /\ Collaborators # <<>>
                   => Call(Collaborators[1], "shutdown") \in Keys(calls)
    /\ shutPc = "done"
          => \A s \in Keys(Collaborators) : Call(s, "shutdown") \in Keys(calls)
    /\ shutPc = "raised"
          => \E c \in raised : IsShutdown(c) /\ c.comp \in Keys(Collaborators)

\* shutdown() of a fully started system has returned although a worker's
\* shutdown step raised: all seven shutdown steps were invoked.
C4_Witness ==
    /\ initPc = "done"
    /\ shutPc = "done"
    /\ caught
    /\ Len(Shutdowns) = Len(AgentOrder) + 3

\* C5: when shutdown() of a fully started system has ended, the teardown
\* calls made are those of the workers followed by health monitor, metrics
\* collector and message-bus client in this order, whichever of them raised.
C5_CollaboratorTeardownIsolated ==
    (initPc = "done" /\ shutPc \in {"done", "raised"})
        => Shutdowns = [i \in 1..Len(agents) |-> Call(agents[i], "shutdown")]
                       \o << Call("health_monitor", "shutdown"),
                             Call("metrics", "shutdown"),
                             Call("cognitive_fabric", "shutdown") >>

\* C6: a command for a name that is no key of the registry is answered 404
\* at once, and the step invokes no command handler, cycle, initialize or
\* shutdown of any worker.
C6_UnknownWorkerNotFound ==
    [][(/\ orchestrator
        /\ request.pc # "await"
        /\ request' # request
        /\ request'.op = "command"
        /\ request'.name \notin Keys(agents))
          => /\ request'.pc = "replied"
             /\ request'.resp = "404"
             /\ request'.invoked = 0
             /\ request'.handler = "none"
             /\ calls' = calls
             /\ loop' = loop
      ]_vars

\* A running system has answered 404 to a command for an unregistered name.
C6_Witness ==
    /\ initPc = "done"
    /\ running
    /\ request.op = "command"
    /\ request.name = "unknown"
    /\ request.resp = "404"
    /\ request.invoked = 0

\* C7: a status request never queries the health monitor unless initialize()
\* has completed.
C7_NoStatusQueryBeforeInitialized ==
    (request.op = "health" /\ request.invoked > 0) => initPc = "done"

\* C8: no command handler is invoked unless initialize() has completed;
\* until then every command is answered 503 or 404.
C8_NoCommandBeforeInitialized ==
    (request.op = "command" /\ initPc # "done")
        => /\ request.invoked = 0
           /\ request.resp \in {"503", "404"}

\* C9: when the command handler of a registered worker raises, the command is
\* answered 500 after exactly one invocation of the handler, and the step
\* leaves the running flag, the registry, every supervisor loop, the metrics
\* reports and the lifecycle calls as they were.
C9_CommandFailureIsLocal ==
    [][(/\ request.op = "command"
        /\ request.pc = "await"
        /\ request'.handler = "raised")
          => /\ request'.pc = "replied"
             /\ request'.resp = "500"
             /\ request'.invoked = 1
             /\ request'.name = request.name
             /\ UNCHANGED <<orchestrator, running, agents, loop, recording,
                            calls, raised, initPc, shutPc, lifecycle>>
      ]_vars

\* A command to a worker whose own loop is in the middle of a cycle failed.
C9_Witness ==
    /\ request.op = "command"
    /\ request.handler = "raised"
    /\ request.resp = "500"
    /\ request.invoked = 1
    /\ running
    /\ loop[request.name] = "cycle"

\* C10: while the system runs, the status shows a worker Degraded after a
\* failed cycle and Running after a successful one.
C10_StatusShowsDegraded ==
    \A a \in Keys(agents) :
        /\ (running /\ loop[a] \in {"report", "backoff"})
              => SystemStatus[a] = "Degraded"
        /\ (running /\ loop[a] = "sleep") => SystemStatus[a] = "Running"

\* The position of call c in the sequence seq of calls.
Pos(seq, c) == CHOOSE i \in 1..Len(seq) : seq[i] = c

IsPrefix(s, t) == Len(s) <= Len(t) /\ \A i \in 1..Len(s) : s[i] = t[i]

\* The shutdown calls shutdown() makes when none of them ends it early: the
\* registered workers in registry order, then the collaborators that exist.
TeardownOrder ==
    [i \in 1..Len(agents) |-> Call(agents[i], "shutdown")]
        \o [i \in 1..Len(Collaborators) |-> Call(Collaborators[i], "shutdown")]

\* C11 (as stated): for any two components of which the first was started
\* before the second, the second's shutdown step is invoked before the
\* first's.
C11_ShutdownReversesStartup ==
    \A i, j \in 1..Len(Starts) :
        LET x == Call(Starts[i].comp, "shutdown")
            y == Call(Starts[j].comp, "shutdown")
        IN  (i < j /\ x \in Keys(Shutdowns) /\ y \in Keys(Shutdowns))
                => Pos(Shutdowns, y) < Pos(Shutdowns, x)

\* C11 (amended): shutdown() invokes the shutdown steps of the workers in
\* the order in which they were started, then that of the health monitor,
\* then of the metrics collector, then of the message-bus client; so the
\* message-bus client and the metrics collector, started first, are shut
\* down after every component started after them.
C11_ShutdownOrder ==
    /\ IsPrefix(Shutdowns, TeardownOrder)
    /\ \A i, j \in 1..Len(Starts) :
          LET x == Call(Starts[i].comp, "shutdown")
              y == Call(Starts[j].comp, "shutdown")
          IN  (/\ i < j
               /\ Starts[i].comp \in {"cognitive_fabric", "metrics"}
               /\ x \in Keys(Shutdowns)
               /\ y \in Keys(Shutdowns))
                  => Pos(Shutdowns, y) < Pos(Shutdowns, x)
    /\ \A i, j \in 1..Len(Starts) :
          LET x == Call(Starts[i].comp, "shutdown")
              y == Call(Starts[j].comp, "shutdown")
          IN  (/\ i < j
               /\ Starts[i].comp \in AgentNames
               /\ x \in Keys(Shutdowns)
               /\ y \in Keys(Shutdowns))
                  => Pos(Shutdowns, x) < Pos(Shutdowns, y)

\* shutdown() of a fully started system has returned: all seven components
\* were started and all seven shut down.
C11_Witness ==
    /\ initPc = "done"
    /\ shutPc = "done"
    /\ Len(Starts) = Len(AgentOrder) + 3
    /\ Len(Shutdowns) = Len(AgentOrder) + 3
    /\ ~caught

\* The start/initialize calls of a startup that succeeds, in the order the
\* claim C12 gives.
StartupOrder ==
    << Call("cognitive_fabric", "start"), Call("metrics", "start"),
       Call("perception", "start"), Call("memory", "start"),
       Call("action", "start"), Call("ethics", "start"),
       Call("health_monitor", "start") >>

\* The start/initialize call c was made and has returned normally.
StartCompleted(c) ==
    /\ c \in Keys(Starts)
    /\ c \notin raised
    /\ initPc # c.comp

\* C12: the start calls are made in the order message bus, metrics,
\* perception, memory, action, ethics, health monitor, each only after every
\* earlier one has returned normally; and a worker is constructed (put
\* into the registry) only after connect() and metrics.start() have returned,
\* exactly when its own initialize() is called.
C12_StartupIsSequential ==
    /\ IsPrefix(Starts, StartupOrder)
    /\ \A i \in 1..Len(Starts) :
          i < Len(Starts) => StartCompleted(Starts[i])
    /\ agents # <<>>
          => /\ StartCompleted(Call("cognitive_fabric", "start"))
             /\ StartCompleted(Call("metrics", "start"))
    /\ \A i \in 1..Len(agents) : Starts[i + 2] = Call(agents[i], "start")
    /\ \A c \in Keys(Starts) : c.comp \in AgentNames => c.comp \in Keys(agents)

\* All four workers have been initialised one after the other and the start
\* of the health monitor is awaited.
C12_Witness ==
    /\ initPc = "health_monitor"
    /\ agents = <<"perception", "memory", "action", "ethics">>
    /\ Len(Starts) = 7
    /\ raised = {}

\* C13: a supervisor loop is inside an iteration (a cycle was invoked) only
\* if its worker's initialize() has returned normally and initialize() as a
\* whole has succeeded; once initialize() has failed, running is false and
\* every loop that was created ends without invoking a cycle.
C13_CyclesOnlyAfterStartup ==
    /\ \A a \in AgentNames :
          loop[a] \in {"cycle", "sleep", "report", "backoff", "crashed"}
              => /\ StartCompleted(Call(a, "start"))
                 /\ initPc = "done"
    /\ initPc = InitializeRaises
          => /\ ~running
             /\ \A a \in AgentNames : loop[a] \in {"none", "created", "exited"}

\* The start of the health monitor raised after the four tasks had been
\* created: all four loops ran and ended at once.
C13_Witness ==
    /\ initPc = InitializeRaises
    /\ Call("health_monitor", "start") \in raised
    /\ \A a \in AgentNames : loop[a] = "exited"

\* C14: when initialize() has failed during application startup, the
\* lifespan goes on to invoke shutdown().
C14_LifespanShutsDownAfterFailedStartup ==
    (initPc = InitializeRaises /\ shutPc = "idle" /\ NoTaskPending)
        => ENABLED LifespanShutdown

\* C15: a supervisor loop ends only at an iteration boundary (its first
\* test of the flag, or the test after the wait or the backoff) at which
\* running is false; no step inside an iteration ends it.
C15_LoopEndsOnlyAtIterationBoundary ==
    [][\A a \in AgentNames :
         (loop[a] \notin {"exited", "crashed"} /\ loop'[a] \in {"exited", "crashed"})
             => /\ ~running
                /\ loop[a] \in {"created", "sleep", "backoff"}
                /\ loop'[a] = "exited"
      ]_vars

\* The worker whose process_cycle() is under no obligation to return.
HungAgent == "memory"

\* The loop of worker a has ended, or was never created.
Terminated(a) == loop[a] \in {"none", "exited", "crashed"}

C17_RegistryOutlivesShutdown ==
    [][/\ initPc \in {"health_monitor", "done", InitializeRaises}
             => agents' = agents
       /\ (orchestrator /\ request' # request /\ request'.op = "list")
             => /\ request'.resp = "200"
                /\ request'.body = agents
                /\ Len(request'.body) = Cardinality(Keys(agents))
       /\ (/\ orchestrator
           /\ request.pc # "await"
           /\ request' # request
           /\ request'.op = "command"
           /\ request'.name \in Keys(agents))
             => /\ request'.pc = "await"
                /\ request'.invoked = 1
                /\ request'.handler = "running"
      ]_vars

\* A command that arrived after shutdown() of a fully started system had
\* returned is being handled by the worker that was shut down first.
C17_Witness ==
    /\ initPc = "done"
    /\ shutPc = "done"
    /\ Call("perception", "shutdown") \in Keys(calls)
    /\ request.late
    /\ request.op = "command"
    /\ request.name = "perception"
    /\ request.pc = "await"
    /\ request.invoked = 1

ShutdownRan(c) ==
    /\ Call(c, "shutdown") \in Keys(calls)
    /\ shutPc # c

DrainSteps ==
    { <<"cycle", "sleep">>, <<"cycle", "report">>, <<"report", "backoff">>,
      <<"report", "crashed">>, <<"sleep", "exited">>, <<"backoff", "exited">> }

Components == AgentNames \cup {"health_monitor", "metrics", "cognitive_fabric"}

\* Component x has been constructed: a worker is in the registry, a
\* collaborator's attribute is set.
Constructed(x) ==
    \/ x \in Keys(agents)
    \/ x = "health_monitor" /\ health_monitor
    \/ x = "metrics" /\ metrics
    \/ x = "cognitive_fabric" /\ cognitive_fabric

\* C20 (as stated): after a failed initialize(), shutdown() invokes a
\* shutdown step only on components whose own start step had returned
\* normally.
C20_ShutdownOnlyWhatStarted ==
    initPc = InitializeRaises
        => \A c \in Keys(Shutdowns) : StartCompleted(Call(c.comp, "start"))

\* C20 (amended): after a failed initialize(), shutdown() invokes a shutdown
\* step only on components that had been constructed, and when it returns
\* it has invoked one on every such component, whether or not the
\* component's own start step succeeded or was ever made.
C20_ShutdownCoversWhatWasConstructed ==
    initPc = InitializeRaises
        => /\ \A c \in Keys(Shutdowns) : Constructed(c.comp)
           /\ shutPc = "done"
                 => \A x \in Components :
                       Constructed(x) => Call(x, "shutdown") \in Keys(Shutdowns)

\* The second worker's initialize() raised; shutdown() has returned after
\* calling shutdown on that worker and on the health monitor, which was
\* constructed and never started.
C20_Witness ==
    /\ initPc = InitializeRaises
    /\ Call("memory", "start") \in raised
    /\ shutPc = "done"
    /\ Call("memory", "shutdown") \in Keys(calls)
    /\ Call("health_monitor", "start") \notin Keys(calls)
    /\ Call("health_monitor", "shutdown") \in Keys(calls)
    /\ Call("action", "shutdown") \notin Keys(calls)

StartModes == {"suspends", "returns", "raises"}

\* The steps of the orchestrator and of its tasks.
Lifecycle ==
    \/ LifespanStartup
    \/ \E ok \in BOOLEAN : ConnectReturn(ok)
    \/ \E ok \in BOOLEAN : MetricsStartReturn(ok)
    \/ \E ok \in BOOLEAN, mode \in StartModes : AgentInitializeReturn(ok, mode)
    \/ \E ok \in BOOLEAN : HealthMonitorStartReturn(ok)
    \/ \E a \in AgentNames : LoopStart(a)
    \/ \E a \in AgentNames, ok \in BOOLEAN : CycleReturn(a, ok)
    \/ \E a \in AgentNames : SleepReturn(a)
    \/ \E a \in AgentNames, ok \in BOOLEAN : ReportReturn(a, ok)
    \/ \E a \in AgentNames : BackoffReturn(a)
    \/ LifespanShutdown
    \/ SignalHandler
    \/ \E ok \in BOOLEAN : AgentShutdownReturn(ok)
    \/ \E ok \in BOOLEAN : HealthMonitorShutdownReturn(ok)
    \/ \E ok \in BOOLEAN : MetricsShutdownReturn(ok)
    \/ \E ok \in BOOLEAN : DisconnectReturn(ok)

\* The steps of the HTTP handlers.
Http ==
    \/ HealthCheck
    \/ \E ok \in BOOLEAN : StatusReturn(ok)
    \/ ListAgents
    \/ \E name \in CommandTargets : SendAgentCommand(name)
    \/ \E ok \in BOOLEAN : CommandReturn(ok)

Next == Lifecycle \/ Http

Spec == Init /\ [][Next]_vars

\* The event loop runs every task that is ready (asyncio's ready queue is
\* first in, first out), the timers of asyncio.sleep expire, and an awaited
\* call of a collaborator or of a worker ends, returning or raising -- except
\* the cycle call of HungAgent, which may never end.
Fairness ==
    /\ \A a \in AgentNames :
          /\ WF_vars(LoopStart(a))
          /\ WF_vars(SleepReturn(a))
          /\ WF_vars(\E ok \in BOOLEAN : ReportReturn(a, ok))
          /\ WF_vars(BackoffReturn(a))
    /\ \A a \in AgentNames \ {HungAgent} :
          WF_vars(\E ok \in BOOLEAN : CycleReturn(a, ok))
    /\ WF_vars(\E ok \in BOOLEAN : AgentShutdownReturn(ok))
    /\ WF_vars(\E ok \in BOOLEAN : HealthMonitorShutdownReturn(ok))
    /\ WF_vars(\E ok \in BOOLEAN : MetricsShutdownReturn(ok))
    /\ WF_vars(\E ok \in BOOLEAN : DisconnectReturn(ok))

\* The orchestrator and its tasks under fair scheduling.
LiveSpec == Init /\ [][Lifecycle]_vars /\ Fairness

====
